---- MODULE Spec2Model ----
(***************************************************************************)
(* Model of waifuc's tagging action family (waifuc/action/tagging.py) and  *)
(* of the source composition exercised by test/source/test_compose.py.     *)
(*                                                                         *)
(* Scores are floats in the code; here a score is an integer number of     *)
(* millionths, so 1e-6 is 1, 0.5 is 500000 and 2.9 is 2900000.             *)
(*                                                                         *)
(* Python objects that can alias are kept in a heap: `dicts` holds the     *)
(* tags mappings and `metas` the metadata mappings, both addressed by      *)
(* index.  An ImageItem is the pair of its image and the index of its      *)
(* metadata mapping.                                                       *)
(***************************************************************************)
EXTENDS Integers, Sequences, FiniteSets, TLC

VARIABLES
    dicts,      \* heap of tags mappings: Seq of functions tag -> score
    metas,      \* heap of metadata mappings: Seq of [tags, danbooru, filename]
    cur,        \* the item travelling through the pipeline (NoItem once dropped)
    last,       \* the last call: its operation, arguments, input, output, backend calls
    hist,       \* names of the stages applied so far, in order
    calls,      \* number of tagging backend invocations so far
    flt,        \* the TagFilterAction instance under construction or in use
    srcLen,     \* composition: [A |-> n, B |-> m], the lengths of the two sources
    order,      \* composition: <<first, second>> operand of the combinator
    pos,        \* composition: [A |-> i, B |-> j], items already taken from each
    out,        \* chain: the items delivered so far
    firstCnt,   \* merge: [A, B] items among the first TwentyItems delivered
    restCnt     \* merge: [A, B] items delivered after the first TwentyItems

pipeVars == <<dicts, metas, cur, last, hist, calls, flt>>
srcVars == <<srcLen, order, pos, out, firstCnt, restCnt>>
vars == <<dicts, metas, cur, last, hist, calls, flt,
          srcLen, order, pos, out, firstCnt, restCnt>>

(***************************************************************************)
(* Bounds of the model.                                                    *)
(***************************************************************************)
MaxStages == 2
MaxTokens == 3
MaxLen == 20

(***************************************************************************)
(* Program constants, in millionths.                                       *)
(***************************************************************************)
DefaultMinScore == 1
AbsentScore == 0
MetaScore == 0
CharacterScore == 2900000
CopyrightScore == 2800000
ArtistScore == 2700000

(***************************************************************************)
(* Python dictionaries as functions.                                       *)
(***************************************************************************)
EmptyDict == [t \in {} |-> 0]

DictSet(d, k, v) == [t \in (DOMAIN d) \cup {k} |-> IF t = k THEN v ELSE d[t]]

DictDel(d, k) == [t \in (DOMAIN d) \ {k} |-> d[t]]

DictGet(d, k, default) == IF k \in DOMAIN d THEN d[k] ELSE default

DictOf1(k, v) == DictSet(EmptyDict, k, v)

DictOf2(k1, v1, k2, v2) == DictSet(DictOf1(k1, v1), k2, v2)

(***************************************************************************)
(* Items and the heap.                                                     *)
(***************************************************************************)
NoItem == [image |-> "none", meta |-> 0]

Heap(ds, ms) == [dicts |-> ds, metas |-> ms]

\* 'tags' in item.meta
HasTags(h, item) == h.metas[item.meta].tags # 0

\* item.meta['tags']
TagsOf(h, item) == h.dicts[h.metas[item.meta].tags]

\* dict(item.meta.get('tags') or {}): a fresh copy of the tags, empty when
\* the key is missing or the mapping is empty.
TagsCopy(h, item) == IF HasTags(h, item) THEN TagsOf(h, item) ELSE EmptyDict

\* A stage that stores its tags into the mapping it read instead of into a
\* fresh one.
OverlayInPlace(h, item, tags) ==
    LET r == h.metas[item.meta].tags
        ds == IF r = 0 THEN Append(h.dicts, tags) ELSE [h.dicts EXCEPT ![r] = tags]
        ref == IF r = 0 THEN Len(h.dicts) + 1 ELSE r
        ms == Append(h.metas, [h.metas[item.meta] EXCEPT !.tags = ref])
    IN  [heap |-> Heap(ds, ms), item |-> [image |-> item.image, meta |-> Len(ms)]]

\* ImageItem(item.image, {**item.meta, 'tags': tags}) with `tags` a new
\* mapping: a new tags object, a new metadata object, a new item.
Overlay(h, item, tags) ==
    LET ds == Append(h.dicts, tags)
        ms == Append(h.metas, [h.metas[item.meta] EXCEPT !.tags = Len(ds)])
    IN  [heap |-> Heap(ds, ms), item |-> [image |-> item.image, meta |-> Len(ms)]]

(***************************************************************************)
(* TaggingAction                                                           *)
(***************************************************************************)
\* The backend (self.method) is an external model: image -> mapping.  Its
\* possible answers are drawn from this set.
BackendResults ==
    { EmptyDict,
      DictOf1("x", 900000),
      DictOf2("x_y", 500000, "y", 1) }

\* A tagger whose guard tests the truth value of the tags (an empty mapping
\* counts as missing) instead of the presence of the key.
TaggingProcessTruthy(h, item, force, result) ==
    IF HasTags(h, item) /\ TagsOf(h, item) # EmptyDict /\ ~force
    THEN [heap |-> h, item |-> item, invoked |-> 0]
    ELSE LET o == Overlay(h, item, result)
         IN  [heap |-> o.heap, item |-> o.item, invoked |-> 1]

\* A tagger that forgets its memoization guard.
TaggingProcessAlways(h, item, force, result) ==
    LET o == Overlay(h, item, result)
    IN  [heap |-> o.heap, item |-> o.item, invoked |-> 1]

\* TaggingAction.process: `result` is what the backend answers if invoked.
TaggingProcess(h, item, force, result) ==
    IF HasTags(h, item) /\ ~force
    THEN [heap |-> h, item |-> item, invoked |-> 0]
    ELSE LET o == Overlay(h, item, result)
         IN  [heap |-> o.heap, item |-> o.item, invoked |-> 1]

(***************************************************************************)
(* TagFilterAction                                                         *)
(***************************************************************************)
Range(s) == {s[i] : i \in DOMAIN s}

NoFilter == [state |-> "none", kind |-> "none", tags |-> EmptyDict, reversed |-> FALSE]

\* isinstance(tags, (list, tuple))
IsListOrTuple(arg) == arg.kind \in {"list", "tuple"}

\* isinstance(tags, dict): a Mapping that is not a dict (kind "mapping",
\* e.g. types.MappingProxyType) is not an instance.
IsDict(arg) == arg.kind = "dict"

\* TagFilterAction.__init__: the instance, or the TypeError it raises.
TagFilterInit(arg, rev) ==
    IF IsListOrTuple(arg)
    THEN [state |-> "ok", kind |-> arg.kind,
          tags |-> [t \in Range(arg.names) |-> DefaultMinScore], reversed |-> rev]
    ELSE IF IsDict(arg)
    THEN [state |-> "ok", kind |-> arg.kind, tags |-> arg.map, reversed |-> rev]
    ELSE [state |-> "TypeError", kind |-> arg.kind, tags |-> EmptyDict, reversed |-> rev]

\* A comparison that also rejects a score equal to the minimum.
TagFailsNonStrict(rev, tagScore, minScore) ==
    (~rev /\ tagScore <= minScore) \/ (rev /\ tagScore >= minScore)

\* The test inside the loop of TagFilterAction.iter.
TagFails(rev, tagScore, minScore) ==
    (~rev /\ tagScore < minScore) \/ (rev /\ tagScore > minScore)

\* The loop of TagFilterAction.iter: valid unless some required tag fails.
FilterValid(f, tags) ==
    ~ \E tag \in DOMAIN f.tags :
         TagFails(f.reversed, DictGet(tags, tag, AbsentScore), f.tags[tag])

\* TagFilterAction.iter: tag the item through the inner tagger
\* (force = False), then yield it if it is valid.
TagFilterIter(h, item, f, result) ==
    LET t == TaggingProcess(h, item, FALSE, result)
    IN  [heap |-> t.heap, item |-> t.item, invoked |-> t.invoked,
         yielded |-> FilterValid(f, TagsOf(t.heap, t.item))]

(***************************************************************************)
(* DanbooruTagProcessAction                                                *)
(*                                                                         *)
(* A danbooru block is [kind, meta, character, copyright, artist]: kind is *)
(* "absent" (no `danbooru` key), "empty" (an empty mapping) or "full".     *)
(* Each tag string is [has, str]: has = FALSE when the key is missing or   *)
(* None, and str is the string as the sequence of its whitespace-separated *)
(* tokens, which is what str.split() returns.                              *)
(***************************************************************************)
NoField == [has |-> FALSE, str |-> << >>]

Field(toks) == [has |-> TRUE, str |-> toks]

NoDanbooru ==
    [kind |-> "absent", meta |-> NoField, character |-> NoField,
     copyright |-> NoField, artist |-> NoField]

EmptyDanbooru == [NoDanbooru EXCEPT !.kind = "empty"]

\* (danbooru.get(key, None) or '').split()
Split(f) == IF f.has THEN f.str ELSE << >>

\* 'artist:' + artist
ArtistKey(artist) == "artist:" \o artist

\* if tags.get(meta_tag): None, 0 and 0.0 are all false.
Truthy(tags, tag) == tag \in DOMAIN tags /\ tags[tag] # 0

RECURSIVE MetaLoop(_, _, _)
\* for meta_tag in meta.split(): whitelisted -> score 0; else deleted if
\* tags.get(meta_tag) is true.
MetaLoop(tags, toks, whitelist) ==
    IF toks = << >> THEN tags
    ELSE LET t == Head(toks)
             next == IF t \in whitelist THEN DictSet(tags, t, MetaScore)
                     ELSE IF Truthy(tags, t) THEN DictDel(tags, t)
                     ELSE tags
         IN  MetaLoop(next, Tail(toks), whitelist)

RECURSIVE ScoreLoop(_, _, _)
\* for character in characters.split(): tags[character] = 2.9
\* for copyright in copyrights.split(): tags[copyright] = 2.8
ScoreLoop(tags, toks, score) ==
    IF toks = << >> THEN tags
    ELSE ScoreLoop(DictSet(tags, Head(toks), score), Tail(toks), score)

\* An artist step that leaves the unprefixed key in place.
ArtistStepKeep(tags, artist) ==
    LET t1 == DictSet(tags, artist, ArtistScore)
    IN  DictSet(t1, ArtistKey(artist), t1[artist])

\* tags[artist] = 2.7; tags['artist:' + artist] = tags[artist]; del tags[artist]
ArtistStep(tags, artist) ==
    LET t1 == DictSet(tags, artist, ArtistScore)
        t2 == DictSet(t1, ArtistKey(artist), t1[artist])
    IN  DictDel(t2, artist)

RECURSIVE ArtistLoop(_, _)
ArtistLoop(tags, toks) ==
    IF toks = << >> THEN tags
    ELSE ArtistLoop(ArtistStep(tags, Head(toks)), Tail(toks))

\* The body of DanbooruTagProcessAction.process on a copy of the tags.
DanbooruTags(tags, dan, whitelist) ==
    IF dan.kind = "full"
    THEN LET m == MetaLoop(tags, Split(dan.meta), whitelist)
             c == ScoreLoop(m, Split(dan.character), CharacterScore)
             r == ScoreLoop(c, Split(dan.copyright), CopyrightScore)
         IN  ArtistLoop(r, Split(dan.artist))
    ELSE tags

(***************************************************************************)
(* The other tag-rewriting stages                                          *)
(***************************************************************************)
\* anime_rating(item.image) is an external classifier: (rating, score).
Ratings == {"safe", "r15", "r18"}

\* A rating stage that files r18 under "nsfw" as well.
NSFWTagsBoth(tags, rating, score) ==
    LET t1 == IF rating \in {"r15", "r18"} THEN DictSet(tags, "nsfw", score) ELSE tags
    IN  IF rating = "r18" THEN DictSet(t1, "explicit", score) ELSE t1

\* TagNSFWOrExplicitAction.process on a copy of the tags.
NSFWTags(tags, rating, score) ==
    LET t1 == IF rating = "r15" THEN DictSet(tags, "nsfw", score) ELSE tags
    IN  IF rating = "r18" THEN DictSet(t1, "explicit", score) ELSE t1

\* {tag: score for tag, score in tags.items() if tag not in self.tags_to_drop}
DropTags(tags, toDrop) == [t \in (DOMAIN tags) \ toDrop |-> tags[t]]

\* {... if not is_blacklisted(tag)}: is_blacklisted is an external
\* predicate, given here by the set of tags it holds of.
BlacklistDropTags(tags, blacklisted) == [t \in (DOMAIN tags) \ blacklisted |-> tags[t]]

\* remove_underline is an external normalisation: underscores become spaces.
RemoveUnderline(tag) == IF tag = "x_y" THEN "x y" ELSE tag

\* {remove_underline(tag): score for tag, score in tags.items()}.  When two
\* keys normalise to the same key the code keeps the one inserted last;
\* insertion order is not part of this model, and no reachable mapping
\* holds two such keys.
UnderlineTags(tags) ==
    [k \in {RemoveUnderline(t) : t \in DOMAIN tags} |->
        tags[CHOOSE t \in DOMAIN tags : RemoveUnderline(t) = k]]

\* drop_overlap_tags is an external reduction: it returns the mapping
\* restricted to the keys it keeps.
OverlapTags(tags, keep) == [t \in (DOMAIN tags) \cap keep |-> tags[t]]

(***************************************************************************)
(* The pipeline: one action per stage applied to the travelling item.      *)
(***************************************************************************)
NoCall == [op |-> "none", arg |-> [none |-> TRUE], in |-> NoItem, out |-> NoItem,
           invoked |-> 0, pre |-> [dicts |-> 0, metas |-> 0]]

SrcIdle ==
    /\ srcLen = [A |-> 0, B |-> 0]
    /\ order = <<"A", "B">>
    /\ pos = [A |-> 0, B |-> 0]
    /\ out = << >>
    /\ firstCnt = [A |-> 0, B |-> 0]
    /\ restCnt = [A |-> 0, B |-> 0]

\* One stage consumes `cur` and yields r.item (or nothing).
Stage(op, arg, r, yielded) ==
    /\ cur # NoItem
    /\ Len(hist) < MaxStages
    /\ dicts' = r.heap.dicts
    /\ metas' = r.heap.metas
    /\ cur' = IF yielded THEN r.item ELSE NoItem
    /\ last' = [op |-> op, arg |-> arg, in |-> cur,
                out |-> IF yielded THEN r.item ELSE NoItem,
                invoked |-> r.invoked,
                pre |-> [dicts |-> Len(dicts), metas |-> Len(metas)]]
    /\ hist' = Append(hist, op)
    /\ calls' = calls + r.invoked
    /\ UNCHANGED srcVars

\* A map stage: ImageItem(item.image, {**item.meta, 'tags': tags}).
Rewrite(op, arg, tags) ==
    LET o == Overlay(Heap(dicts, metas), cur, tags)
    IN  Stage(op, arg, [heap |-> o.heap, item |-> o.item, invoked |-> 0], TRUE)

TaggingAction(force, result) ==
    LET r == TaggingProcess(Heap(dicts, metas), cur, force, result)
    IN  /\ Stage("TaggingAction",
                 [force |-> force,
                  result |-> IF r.invoked = 1 THEN result ELSE EmptyDict],
                 r, TRUE)
        /\ UNCHANGED flt

TagFilterNew(arg, rev) ==
    /\ flt = NoFilter
    /\ flt' = TagFilterInit(arg, rev)
    /\ last' = [NoCall EXCEPT !.op = "TagFilterAction.__init__",
                              !.arg = [kind |-> arg.kind, reversed |-> rev]]
    /\ UNCHANGED <<dicts, metas, cur, hist, calls>>
    /\ UNCHANGED srcVars

TagFilterAction(result) ==
    LET r == TagFilterIter(Heap(dicts, metas), cur, flt, result)
    IN  /\ flt.state = "ok"
        /\ Stage("TagFilterAction",
                 [force |-> FALSE,
                  result |-> IF r.invoked = 1 THEN result ELSE EmptyDict],
                 r, r.yielded)
        /\ UNCHANGED flt

\* drop_overlap_tags may keep any subset of the keys it is given.
TagOverlapDropAction ==
    /\ cur # NoItem
    /\ \E keep \in SUBSET (DOMAIN TagsCopy(Heap(dicts, metas), cur)) :
          Rewrite("TagOverlapDropAction", [keep |-> keep],
                  OverlapTags(TagsCopy(Heap(dicts, metas), cur), keep))
    /\ UNCHANGED flt

DanbooruTagProcessAction(whitelist) ==
    /\ Rewrite("DanbooruTagProcessAction", [whitelist |-> whitelist],
               DanbooruTags(TagsCopy(Heap(dicts, metas), cur),
                            metas[cur.meta].danbooru, whitelist))
    /\ UNCHANGED flt

TagNSFWOrExplicitAction(rating, score) ==
    /\ Rewrite("TagNSFWOrExplicitAction", [rating |-> rating, score |-> score],
               NSFWTags(TagsCopy(Heap(dicts, metas), cur), rating, score))
    /\ UNCHANGED flt

TagDropAction(toDrop) ==
    /\ Rewrite("TagDropAction", [drop |-> toDrop],
               DropTags(TagsCopy(Heap(dicts, metas), cur), toDrop))
    /\ UNCHANGED flt

BlacklistedTagDropAction(blacklisted) ==
    /\ Rewrite("BlacklistedTagDropAction", [blacklisted |-> blacklisted],
               BlacklistDropTags(TagsCopy(Heap(dicts, metas), cur), blacklisted))
    /\ UNCHANGED flt

TagRemoveUnderlineAction ==
    /\ Rewrite("TagRemoveUnderlineAction", [none |-> TRUE],
               UnderlineTags(TagsCopy(Heap(dicts, metas), cur)))
    /\ UNCHANGED flt

(***************************************************************************)
(* Inputs                                                                  *)
(***************************************************************************)
Scores == {0, 1, 500000, 900000}

RatingScores == {400000, 900000}

MetaTokens == {"x", "y"}

Tokens == {"x", "y", "artist:x"}

FilterNames == {"x", "y"}

\* All mappings from a subset of `names` to `scores`.
DictsOver(names, scores) ==
    UNION {[dom -> scores] : dom \in SUBSET names}

\* One item whose metadata has the tags `t` (no `tags` key when hasT is
\* false), the danbooru block `d` and a filename.
InitItem(hasT, t, d) ==
    /\ dicts = IF hasT THEN <<t>> ELSE << >>
    /\ metas = <<[tags |-> IF hasT THEN 1 ELSE 0, danbooru |-> d,
                  filename |-> "danbooru_1.png"]>>
    /\ cur = [image |-> "img", meta |-> 1]
    /\ last = NoCall
    /\ hist = << >>
    /\ calls = 0

PipeIdle ==
    /\ dicts = << >>
    /\ metas = << >>
    /\ cur = NoItem
    /\ last = NoCall
    /\ hist = << >>
    /\ calls = 0
    /\ flt = NoFilter

\* The pipeline specification: every stage, a few items, two filters.
PipeTags ==
    { EmptyDict,
      DictOf1("x", 900000),
      DictOf2("x", 500000, "y", 1),
      DictOf2("nsfw", 400000, "x_y", 0) }

PipeDanbooru ==
    { NoDanbooru,
      EmptyDanbooru,
      [kind |-> "full", meta |-> Field(<<"x">>), character |-> Field(<<"y">>),
       copyright |-> NoField, artist |-> Field(<<"x">>)] }

PipeFilters ==
    { TagFilterInit([kind |-> "list", names |-> <<"x">>, map |-> EmptyDict], FALSE),
      TagFilterInit([kind |-> "dict", names |-> << >>, map |-> DictOf1("x", 500000)], TRUE) }

Init ==
    /\ \E hasT \in BOOLEAN, t \in PipeTags, d \in PipeDanbooru :
          InitItem(hasT, IF hasT THEN t ELSE EmptyDict, d)
    /\ flt \in PipeFilters
    /\ SrcIdle

Next ==
    \/ \E force \in BOOLEAN, result \in BackendResults : TaggingAction(force, result)
    \/ \E result \in BackendResults : TagFilterAction(result)
    \/ TagOverlapDropAction
    \/ \E whitelist \in SUBSET MetaTokens : DanbooruTagProcessAction(whitelist)
    \/ \E rating \in Ratings, score \in RatingScores :
          TagNSFWOrExplicitAction(rating, score)
    \/ \E toDrop \in SUBSET {"x", "nsfw"} : TagDropAction(toDrop)
    \/ \E blacklisted \in {{}, {"y", "explicit"}} : BlacklistedTagDropAction(blacklisted)
    \/ TagRemoveUnderlineAction

Spec == Init /\ [][Next]_vars

(***************************************************************************)
(* The filter specification: a TagFilterAction is constructed from an      *)
(* argument of any type, then used on an item.                             *)
(***************************************************************************)
NameLists ==
    {<< >>} \cup {<<a>> : a \in FilterNames}
            \cup {<<a, b>> : a \in FilterNames, b \in FilterNames}

MinScores == {0, 1, 500000}

\* kind is the Python type of the argument: a list, a tuple, a dict, a
\* Mapping that is not a dict, or something else.
FilterArgs ==
    {[kind |-> k, names |-> n, map |-> EmptyDict] :
        k \in {"list", "tuple"}, n \in NameLists}
    \cup {[kind |-> k, names |-> << >>, map |-> m] :
        k \in {"dict", "mapping"}, m \in DictsOver(FilterNames, MinScores)}
    \cup {[kind |-> k, names |-> << >>, map |-> EmptyDict] :
        k \in {"str", "set", "NoneType"}}

InitFilter ==
    /\ \E hasT \in BOOLEAN, t \in DictsOver(FilterNames, Scores) :
          InitItem(hasT, IF hasT THEN t ELSE EmptyDict, NoDanbooru)
    /\ flt = NoFilter
    /\ SrcIdle

NextFilter ==
    \/ \E arg \in FilterArgs, rev \in BOOLEAN : TagFilterNew(arg, rev)
    \/ \E result \in BackendResults : TagFilterAction(result)

SpecFilter == InitFilter /\ [][NextFilter]_vars

(***************************************************************************)
(* The danbooru specification: DanbooruTagProcessAction.process on items   *)
(* with every small danbooru block.                                        *)
(***************************************************************************)
TokenStrings ==
    {<< >>} \cup {<<a>> : a \in Tokens} \cup {<<a, b>> : a \in Tokens, b \in Tokens}

Fields == {NoField} \cup {Field(s) : s \in TokenStrings}

DanbooruBlocks ==
    {[kind |-> "full", meta |-> m, character |-> c, copyright |-> r, artist |-> a] :
        m \in Fields, c \in Fields, r \in Fields, a \in Fields}

BlockTokens(d) ==
    Len(d.meta.str) + Len(d.character.str) + Len(d.copyright.str) + Len(d.artist.str)

\* The four keys are either all there (an empty string when there is no
\* token) or missing exactly where there is no token.
BlockUniform(d) ==
    LET fs == {d.meta, d.character, d.copyright, d.artist}
    IN  \/ \A f \in fs : f.has
        \/ \A f \in fs : f.has <=> (f.str # << >>)

InitDanbooru ==
    /\ \E hasT \in BOOLEAN, t \in DictsOver(Tokens, {0, 500000}), d \in DanbooruBlocks :
          /\ BlockTokens(d) <= MaxTokens
          /\ BlockUniform(d)
          /\ InitItem(hasT, IF hasT THEN t ELSE EmptyDict, d)
    /\ flt = NoFilter
    /\ SrcIdle

NextDanbooru ==
    /\ hist = << >>
    /\ \E whitelist \in SUBSET MetaTokens : DanbooruTagProcessAction(whitelist)

SpecDanbooru == InitDanbooru /\ [][NextDanbooru]_vars

(***************************************************************************)
(* Source composition.  The combinators live in waifuc/source, which is    *)
(* not among the sources at hand; they are modelled from their             *)
(* specification and from the tests of test_compose.py.  Source s of       *)
(* length n produces the items <<s, 1>> .. <<s, n>>.                       *)
(***************************************************************************)
TwentyItems == 20

Other(s) == IF s = "A" THEN "B" ELSE "A"

\* list(s) for a single source
ListOf(s, n) == [i \in 1..n |-> <<s, i>>]

\* A chain that starts with its right operand.
ChainPickSecond(ord, p, len) ==
    IF p[ord[2]] < len[ord[2]] THEN ord[2] ELSE ord[1]

\* Chain: the operand the next item comes from: the first until it is
\* exhausted, then the second.
ChainPick(ord, p, len) ==
    IF p[ord[1]] < len[ord[1]] THEN ord[1] ELSE ord[2]

ChainNextItem ==
    LET s == ChainPick(order, pos, srcLen)
    IN  /\ pos[s] < srcLen[s]
        /\ out' = Append(out, <<s, pos[s] + 1>>)
        /\ pos' = [pos EXCEPT ![s] = @ + 1]
        /\ UNCHANGED <<srcLen, order, firstCnt, restCnt>>
        /\ UNCHANGED pipeVars

InitChain ==
    /\ PipeIdle
    /\ srcLen \in [{"A", "B"} -> 0..MaxLen]
    /\ order \in {<<"A", "B">>, <<"B", "A">>}
    /\ pos = [A |-> 0, B |-> 0]
    /\ out = << >>
    /\ firstCnt = [A |-> 0, B |-> 0]
    /\ restCnt = [A |-> 0, B |-> 0]

NextChain == ChainNextItem

SpecChain == InitChain /\ [][NextChain]_vars

\* A merge that delivers whatever comes first, with no fairness.
MergeMayTakeAny(s, p, len) == p[s] < len[s]

\* Merge: source s may deliver its next item unless that would exhaust s
\* before the other source has contributed anything.  (When both sources
\* hold a single item one of them must go first.)
MergeMayTake(s, p, len) ==
    /\ p[s] < len[s]
    /\ ~ ( /\ p[s] + 1 = len[s]
           /\ p[Other(s)] = 0
           /\ len[Other(s)] > 0
           /\ (len[s] > 1 \/ len[Other(s)] > 1) )

MergeNextItem(s) ==
    /\ MergeMayTake(s, pos, srcLen)
    /\ pos' = [pos EXCEPT ![s] = @ + 1]
    /\ IF pos.A + pos.B < TwentyItems
       THEN firstCnt' = [firstCnt EXCEPT ![s] = @ + 1] /\ UNCHANGED restCnt
       ELSE restCnt' = [restCnt EXCEPT ![s] = @ + 1] /\ UNCHANGED firstCnt
    /\ UNCHANGED <<srcLen, order, out>>
    /\ UNCHANGED pipeVars

InitMerge ==
    /\ PipeIdle
    /\ srcLen \in [{"A", "B"} -> 0..MaxLen]
    /\ order = <<"A", "B">>
    /\ pos = [A |-> 0, B |-> 0]
    /\ out = << >>
    /\ firstCnt = [A |-> 0, B |-> 0]
    /\ restCnt = [A |-> 0, B |-> 0]

NextMerge == \E s \in {"A", "B"} : MergeNextItem(s)

SpecMerge == InitMerge /\ [][NextMerge]_vars

(***************************************************************************)
(* Properties                                                              *)
(***************************************************************************)
H == Heap(dicts, metas)

RewriteOps ==
    {"TagOverlapDropAction", "DanbooruTagProcessAction", "TagNSFWOrExplicitAction",
     "TagDropAction", "BlacklistedTagDropAction", "TagRemoveUnderlineAction"}

\* The metadata of `b` is the metadata of `a` with at most `tags` replaced.
SameButTags(a, b) ==
    metas[b.meta] = [metas[a.meta] EXCEPT !.tags = metas[b.meta].tags]

\* C1: TaggingAction.process on an item that has a `tags` key, with force
\* false, does not invoke the backend, returns its input and creates no
\* object, so repeating it changes nothing; in every other case it invokes
\* the backend exactly once and returns an item with the same image whose
\* metadata is the input's with only `tags` replaced by the backend result.
C1_TaggingMemo ==
    last.op = "TaggingAction" =>
        IF HasTags(H, last.in) /\ ~last.arg.force
        THEN /\ last.invoked = 0
             /\ last.out = last.in
             /\ Len(dicts) = last.pre.dicts
             /\ Len(metas) = last.pre.metas
        ELSE /\ last.invoked = 1
             /\ last.out.image = last.in.image
             /\ SameButTags(last.in, last.out)
             /\ HasTags(H, last.out)
             /\ TagsOf(H, last.out) = last.arg.result

\* Two TaggingAction calls in a row: the first invoked the backend, the
\* second returned its input.
C1_Witness ==
    /\ hist = <<"TaggingAction", "TaggingAction">>
    /\ ~last.arg.force
    /\ last.invoked = 0
    /\ calls = 1
    /\ last.out = last.in

\* The tags TagFilterAction.iter tests: the item's own, or the backend's
\* when the item had none.
FilteredTags ==
    IF HasTags(H, last.in) THEN TagsOf(H, last.in) ELSE last.arg.result

\* C2: TagFilterAction.iter yields the item, with reversed false, iff every
\* required tag has score >= its minimum (0.0 for an absent tag, minimum
\* 1e-6 in list form); with reversed true it yields nothing iff some
\* required tag has score > its minimum.  It yields at most the one item.
C2_FilterSemantics ==
    last.op = "TagFilterAction" =>
        /\ (flt.kind \in {"list", "tuple"} => \A t \in DOMAIN flt.tags : flt.tags[t] = 1)
        /\ ~flt.reversed =>
              ((last.out # NoItem) <=>
                  \A t \in DOMAIN flt.tags : DictGet(FilteredTags, t, 0) >= flt.tags[t])
        /\ flt.reversed =>
              ((last.out = NoItem) <=>
                  \E t \in DOMAIN flt.tags : DictGet(FilteredTags, t, 0) > flt.tags[t])
        /\ last.out # NoItem =>
              /\ cur = last.out
              /\ HasTags(H, cur)
              /\ TagsOf(H, cur) = FilteredTags

\* A list filter on "x" accepts an item whose score for x is exactly 1e-6.
C2_Witness ==
    /\ last.op = "TagFilterAction"
    /\ flt.kind = "list"
    /\ ~flt.reversed
    /\ DOMAIN flt.tags = {"x"}
    /\ DictGet(FilteredTags, "x", 0) = 1
    /\ last.out # NoItem

\* list(A + B) in the order of the operands
ChainList ==
    ListOf(order[1], srcLen[order[1]]) \o ListOf(order[2], srcLen[order[2]])

Drained == pos = srcLen

\* C3: what a chain has delivered is always a prefix of the first operand's
\* items in order followed by the second operand's items in order, and the
\* drained chain has delivered exactly all n + m of them.
C3_ChainOrder ==
    /\ Len(out) = pos.A + pos.B
    /\ out = SubSeq(ChainList, 1, Len(out))
    /\ Drained => (Len(out) = srcLen.A + srcLen.B /\ out = ChainList)

\* B + A drained, both sources non-empty: B's block came first.
C3_Witness ==
    /\ order = <<"B", "A">>
    /\ srcLen.A = 2
    /\ srcLen.B = 3
    /\ Drained
    /\ out = <<<<"B", 1>>, <<"B", 2>>, <<"B", 3>>, <<"A", 1>>, <<"A", 2>>>>

\* C4: a merge of two sources of 20 items can always go on until it has
\* delivered all 40, and then neither the first 20 nor the last 20 items
\* are all from one source.
C4_MergeFairness ==
    (srcLen.A = TwentyItems /\ srcLen.B = TwentyItems) =>
        /\ ~Drained => \E s \in {"A", "B"} : MergeMayTake(s, pos, srcLen)
        /\ Drained =>
              /\ firstCnt.A + firstCnt.B = TwentyItems
              /\ restCnt.A + restCnt.B = TwentyItems
              /\ firstCnt.A < TwentyItems /\ firstCnt.B < TwentyItems
              /\ restCnt.A < TwentyItems /\ restCnt.B < TwentyItems

\* A drained 20 + 20 merge whose first 20 items hold 19 of A and 1 of B.
C4_Witness ==
    /\ srcLen.A = TwentyItems /\ srcLen.B = TwentyItems
    /\ Drained
    /\ firstCnt = [A |-> 19, B |-> 1]
    /\ restCnt = [A |-> 1, B |-> 19]

\* The danbooru block and the tags of the last DanbooruTagProcessAction call.
DanIn == metas[last.in.meta].danbooru

DanOut == TagsOf(H, last.out)

DanCase == last.op = "DanbooruTagProcessAction" /\ DanIn.kind = "full"

Characters == Range(Split(DanIn.character))

Copyrights == Range(Split(DanIn.copyright))

Artists == Range(Split(DanIn.artist))

ArtistKeys == {ArtistKey(a) : a \in Artists}

Has(tags, t, score) == t \in DOMAIN tags /\ tags[t] = score

\* C5 as claimed: whatever the four tag strings, every character token
\* ends with score 2.9, every copyright token with 2.8, and every artist
\* token t ends as `artist:t` with 2.7 and without the key t.
C5_AsClaimed ==
    DanCase =>
        /\ \A t \in Characters : Has(DanOut, t, 2900000)
        /\ \A t \in Copyrights : Has(DanOut, t, 2800000)
        /\ \A t \in Artists : Has(DanOut, ArtistKey(t), 2700000) /\ t \notin DOMAIN DanOut

\* C5 amended: the strings are applied in order, so a later string wins.
\* A character token has score 2.9 unless it is also a copyright token, an
\* artist token or the `artist:` form of an artist token; a copyright token
\* has 2.8 unless it is also an artist token or the `artist:` form of one;
\* for an artist token t, `artist:t` has 2.7 unless `artist:t` is an artist
\* token itself, and t is absent unless t is the `artist:` form of an
\* artist token.
C5_DanbooruScores ==
    DanCase =>
        /\ \A t \in Characters \ (Copyrights \cup Artists \cup ArtistKeys) :
              Has(DanOut, t, 2900000)
        /\ \A t \in Copyrights \ (Artists \cup ArtistKeys) :
              Has(DanOut, t, 2800000)
        /\ \A t \in Artists :
              /\ ArtistKey(t) \notin Artists => Has(DanOut, ArtistKey(t), 2700000)
              /\ t \notin ArtistKeys => t \notin DOMAIN DanOut

\* Character y, copyright artist:x and artist x, on tags that held x.
C5_Witness ==
    /\ DanCase
    /\ Split(DanIn.character) = <<"y">>
    /\ Split(DanIn.copyright) = <<"artist:x">>
    /\ Split(DanIn.artist) = <<"x">>
    /\ HasTags(H, last.in) /\ "x" \in DOMAIN TagsOf(H, last.in)
    /\ DanOut = DictOf2("y", 2900000, "artist:x", 2700000)

\* C6 as claimed: a meta token that is in none of the other three strings
\* ends with score 0 if it is whitelisted and is absent otherwise, whatever
\* the input tags held for it.
C6_MetaTokens ==
    DanCase =>
        \A t \in Range(Split(DanIn.meta)) \ (Characters \cup Copyrights \cup Artists) :
            IF t \in last.arg.whitelist
            THEN Has(DanOut, t, 0)
            ELSE t \notin DOMAIN DanOut

\* The tags before and after the last TagNSFWOrExplicitAction call.
RatedIn == TagsCopy(H, last.in)

RatedOut == TagsOf(H, last.out)

\* C7: TagNSFWOrExplicitAction.process: r15 sets only `nsfw` to the score,
\* r18 sets only `explicit` to the score and adds no `nsfw` key, any other
\* rating leaves the tags as they were (empty when the item had none).
C7_RatingMapping ==
    last.op = "TagNSFWOrExplicitAction" =>
        /\ last.arg.rating = "r15" => RatedOut = DictSet(RatedIn, "nsfw", last.arg.score)
        /\ last.arg.rating = "r18" =>
              /\ RatedOut = DictSet(RatedIn, "explicit", last.arg.score)
              /\ ("nsfw" \in DOMAIN RatedOut) <=> ("nsfw" \in DOMAIN RatedIn)
        /\ last.arg.rating \notin {"r15", "r18"} => RatedOut = RatedIn
        /\ ~HasTags(H, last.in) => RatedIn = EmptyDict

\* r18 with score 0.9 on tags {x: 0.9}.
C7_Witness ==
    /\ last.op = "TagNSFWOrExplicitAction"
    /\ last.arg.rating = "r18"
    /\ RatedIn = DictOf1("x", 900000)
    /\ RatedOut = DictOf2("x", 900000, "explicit", 900000)

\* C8 as claimed: the constructor raises TypeError iff the argument is
\* neither a list or tuple nor a mapping, before any item is processed, and
\* every list, tuple or mapping gives a usable filter.
C8_ConstructorTypes ==
    last.op = "TagFilterAction.__init__" =>
        /\ (flt.state = "TypeError") <=>
              (last.arg.kind \notin {"list", "tuple", "dict", "mapping"})
        /\ flt.state \in {"ok", "TypeError"}
        /\ hist = << >> /\ calls = 0

\* One step never changes a mapping that exists, and the yielded item's
\* metadata differs from the consumed item's in `tags` at most.
FrameStep ==
    /\ Len(dicts') >= Len(dicts)
    /\ Len(metas') >= Len(metas)
    /\ \A i \in DOMAIN dicts : dicts'[i] = dicts[i]
    /\ \A j \in DOMAIN metas : metas'[j] = metas[j]
    /\ (cur # NoItem /\ cur' # NoItem) =>
          /\ cur'.image = cur.image
          /\ metas'[cur'.meta] = [metas[cur.meta] EXCEPT !.tags = metas'[cur'.meta].tags]

\* C9: no stage of the tagging family mutates its input: every metadata
\* mapping and every tags mapping keeps its keys and values through every
\* step, and the output's non-`tags` metadata equals the input's.
C9_NoMutation == [][FrameStep]_vars

\* A rewriting stage changed the tags of an item that had some.
C9_Witness ==
    /\ last.op = "DanbooruTagProcessAction"
    /\ HasTags(H, last.in)
    /\ TagsOf(H, last.in) = DictOf2("x", 500000, "y", 1)
    /\ TagsOf(H, last.out) # TagsOf(H, last.in)
    /\ metas[1].tags = 1

\* C10: every tag-rewriting stage outputs an item with a `tags` key, so an
\* item that came without tags and passed such a stage reaches a later
\* TaggingAction or TagFilterAction (force false) with the key set: the
\* backend is not invoked, no mapping is created and the item, if yielded,
\* still has the tags it came to that stage with.
C10_RewriteThenTag ==
    /\ last.op \in RewriteOps => HasTags(H, last.out)
    /\ ( /\ last.op \in {"TaggingAction", "TagFilterAction"}
         /\ ~last.arg.force
         /\ metas[1].tags = 0
         /\ \E i \in 1..(Len(hist) - 1) : hist[i] \in RewriteOps )
       => /\ last.invoked = 0
          /\ Len(dicts) = last.pre.dicts
          /\ last.out # NoItem => last.out = last.in

\* An item without tags went through TagDropAction and then TaggingAction:
\* no backend call, and its tags are the empty mapping the drop wrote.
C10_Witness ==
    /\ metas[1].tags = 0
    /\ hist = <<"TagDropAction", "TaggingAction">>
    /\ ~last.arg.force
    /\ calls = 0
    /\ TagsOf(H, cur) = EmptyDict

====
